---- MODULE Spec2Model ----
(***************************************************************************)
(* A model of the dividend-ETF rotation script (红利三剑客.py).              *)
(*                                                                         *)
(*   Spec       the main sequence of the script: get_dividend_rates,       *)
(*              fetch_etf_data (one step per ticker), calculate_signals,   *)
(*              recommendation.                                            *)
(*   SpecYield  get_dividend_rates step by step, run repeatedly against    *)
(*              the cache file and a clock.                                *)
(*                                                                         *)
(* Numbers.  The script computes in binary floating point.  The model      *)
(* computes in fixed point: momentum and the risk-adjusted value in units  *)
(* of 1e-6, volatility in units of 1e-2, scores in units of 1e-7, yields   *)
(* in hundredths of a percent.  A value is a record: a finite number, NaN  *)
(* or a signed infinity.  Closes are powers of two, so that the logarithm  *)
(* of a ratio of closes is an exact multiple of ln 2 and the deviation of  *)
(* a window of returns is zero exactly when the returns are all equal.     *)
(***************************************************************************)
EXTENDS Integers, Sequences, FiniteSets, TLC

(***************************************************************************)
(* Configuration (lines 12-30 of the script).                              *)
(***************************************************************************)
\* ETF_MAP, in the insertion order a Python dict iterates in.
ETF_MAP == <<"510720", "515180", "512890">>

Tickers == {ETF_MAP[i] : i \in 1..Len(ETF_MAP)}

\* DEFAULT_DIV, in hundredths of a percent (4.5, 4.2, 4.0).
DEFAULT_DIV == [t \in Tickers |->
                  IF t = "510720" THEN 450 ELSE IF t = "515180" THEN 420 ELSE 400]

\* The default of DEFAULT_DIV.get(ticker, 3.0) and div_rates.get(ticker, 3.0),
\* in hundredths of a percent.
FALLBACK_DIV == 300

\* LOOKBACK_DAYS is 60 in the script.  The model scales the window down; every
\* formula below is stated in terms of LOOKBACK_DAYS, not of its value.
LOOKBACK_DAYS == 2

\* RISK_FREE_RATE = 0.02, in units of 1e-6.
RISK_FREE_RATE == 20000

\* The 252 trading days of RISK_FREE_RATE/252 and np.sqrt(252).
TRADING_DAYS == 252

DIV_CACHE_DAYS == 30

REQUEST_DELAY == 2

\* The plausibility bound of `0 < div_rate < 15`, in percent.
MAX_PLAUSIBLE == 15

(***************************************************************************)
(* Values: finite fixed-point numbers, NaN, +inf and -inf.                 *)
(***************************************************************************)
Micro == 1000 * 1000

NaN == [k |-> "nan", v |-> 0]

Num(x) == [k |-> "num", v |-> x]

Inf(s) == [k |-> "inf", v |-> s]

IsNaN(a) == a.k = "nan"

Sign(x) == IF x > 0 THEN 1 ELSE IF x < 0 THEN -1 ELSE 0

\* a <= b for values that are not NaN.
ValLeq(a, b) ==
    IF a.k = "inf" THEN a.v = -1 \/ (b.k = "inf" /\ b.v = 1)
    ELSE IF b.k = "inf" THEN b.v = 1
    ELSE a.v <= b.v

\* Multiplication of a value by a positive integer constant.
Scale(a, c) == IF a.k = "num" THEN Num(a.v * c) ELSE a

\* Addition of a finite amount to a value.
Shift(a, c) == IF a.k = "num" THEN Num(a.v + c) ELSE a

RECURSIVE SqrtIter(_, _)
SqrtIter(x, r) ==
    LET nxt == (r + x \div r) \div 2
    IN  IF nxt >= r THEN r ELSE SqrtIter(x, nxt)

\* The integer square root.
ISqrt(x) == IF x <= 0 THEN 0 ELSE SqrtIter(x, x)

RECURSIVE Log2(_)
\* log2 of a close (closes are powers of two).
Log2(c) == IF c <= 1 THEN 0 ELSE 1 + Log2(c \div 2)

\* ln(2)^2 in units of 1e-4.
LN2_SQ == 4805

(***************************************************************************)
(* The per-instrument series of calculate_signals (lines 150-152).  A df   *)
(* is a sequence of rows [date, close]; the series are positional.         *)
(***************************************************************************)
\* returns = np.log(df['close'] / df['close'].shift(1)), in units of ln 2.
Returns(df) ==
    [i \in 1..Len(df) |->
        IF i = 1 THEN NaN ELSE Num(Log2(df[i].close) - Log2(df[i-1].close))]

\* Momentum over one period too few: pct_change(periods=LOOKBACK_DAYS - 1).
MomentumShortWindow(df) ==
    [i \in 1..Len(df) |->
        IF i <= LOOKBACK_DAYS - 1 THEN NaN
        ELSE Num(((df[i].close - df[i - LOOKBACK_DAYS + 1].close) * Micro)
                    \div df[i - LOOKBACK_DAYS + 1].close)]

\* momentum = df['close'].pct_change(periods=LOOKBACK_DAYS), in units of 1e-6.
Momentum(df) ==
    [i \in 1..Len(df) |->
        IF i <= LOOKBACK_DAYS THEN NaN
        ELSE Num(((df[i].close - df[i - LOOKBACK_DAYS].close) * Micro)
                    \div df[i - LOOKBACK_DAYS].close)]

RECURSIVE SumSeq(_, _, _)
SumSeq(f, lo, hi) == IF lo > hi THEN 0 ELSE f[lo] + SumSeq(f, lo + 1, hi)

\* The sample standard deviation (ddof = 1) of the window of LOOKBACK_DAYS returns
\* ending at row i, times sqrt(252), in units of 1e-2; NaN while the window is not
\* full of defined returns (min_periods defaults to the window).
RollingVol(r, i) ==
    LET n  == LOOKBACK_DAYS
        lo == i - n + 1
    IN  IF lo < 1 \/ \E j \in lo..i : IsNaN(r[j]) THEN NaN
        ELSE LET x  == [j \in lo..i |-> r[j].v]
                 sq == [j \in lo..i |-> r[j].v * r[j].v]
                 s  == SumSeq(x, lo, i)
                 vn == n * SumSeq(sq, lo, i) - s * s
                 vd == n * (n - 1)
             IN  Num(ISqrt((TRADING_DAYS * LN2_SQ * vn) \div vd))

\* volatility = returns.rolling(LOOKBACK_DAYS).std() * np.sqrt(252)
Volatility(df) == [i \in 1..Len(df) |-> RollingVol(Returns(df), i)]

\* (momentum - RISK_FREE_RATE/252) / volatility, elementwise: a NaN operand gives
\* NaN, a zero divisor gives the infinity of the dividend's sign (NaN for 0/0).
ExcessOverVol(m, vol) ==
    IF IsNaN(m) \/ IsNaN(vol) THEN NaN
    ELSE LET num == m.v - RISK_FREE_RATE \div TRADING_DAYS
         IN  IF vol.v = 0
             THEN (IF num = 0 THEN NaN ELSE Inf(Sign(num)))
             ELSE Num((num * 100) \div vol.v)

\* The `sharpe` of calculate_signals (lines 155-158): the branch is chosen once,
\* from the last row of volatility.  In the first branch sharpe is one number (the
\* last momentum times 10); in the second it is a series over the rows of df.
Sharpe(df) ==
    LET momentum   == Momentum(df)
        volatility == Volatility(df)
        n          == Len(df)
    IN  IF volatility[n] = Num(0)
        THEN [scalar |-> TRUE, v |-> Scale(momentum[n], 10),
              index |-> <<>>, vals |-> <<>>]
        ELSE [scalar |-> FALSE, v |-> NaN,
              index |-> [i \in 1..n |-> df[i].date],
              vals  |-> [i \in 1..n |-> ExcessOverVol(momentum[i], volatility[i])]]

\* div_rates.get(ticker, 3.0), in hundredths of a percent.
GetRate(div_rates, ticker) ==
    IF ticker \in DOMAIN div_rates THEN div_rates[ticker] ELSE FALLBACK_DIV

\* sharpe * 0.7 + div_factor * 0.3 for one value, in units of 1e-7
\* (div_factor = rate / 100 is rate-in-hundredths * 100 in units of 1e-6).
Blend(sharpe, rate) == Shift(Scale(sharpe, 7), 3 * (rate * 100))

\* score = sharpe * 0.7 + div_factor * 0.3 (lines 160-161): a number or a series,
\* as sharpe is.
Score(df, rate) ==
    LET sharpe == Sharpe(df)
    IN  [scalar |-> sharpe.scalar,
         v      |-> IF sharpe.scalar THEN Blend(sharpe.v, rate) ELSE NaN,
         index  |-> sharpe.index,
         vals   |-> [i \in 1..Len(sharpe.vals) |-> Blend(sharpe.vals[i], rate)]]

(***************************************************************************)
(* The DataFrame `signals`: columns in insertion order, an index of dates, *)
(* one sequence of values per column; err records an exception raised by   *)
(* a column assignment.                                                    *)
(***************************************************************************)
EmptyFrame == [err |-> FALSE, cols |-> <<>>, index |-> <<>>, data |-> <<>>]

IsUnique(s) == \A i, j \in 1..Len(s) : s[i] = s[j] => i = j

\* value.reindex(index): the value at each date of the index, NaN where the series
\* has no such date (the series' dates are unique here).
Reindex(value, index) ==
    [i \in 1..Len(index) |->
        IF \E j \in 1..Len(value.index) : value.index[j] = index[i]
        THEN value.vals[CHOOSE j \in 1..Len(value.index) : value.index[j] = index[i]]
        ELSE NaN]

\* signals[ticker] = value (line 163), as pandas assigns a column: a number fills
\* the rows the frame has; a series gives a frame without rows its index (columns
\* already there become NaN), is taken as it is when its index equals the frame's,
\* and is otherwise reindexed to the frame's index, which raises when the series
\* repeats a date.
SetItem(frame, ticker, value) ==
    IF frame.err THEN frame
    ELSE IF value.scalar
    THEN [frame EXCEPT !.cols = Append(@, ticker),
                       !.data = Append(@, [i \in 1..Len(frame.index) |-> value.v])]
    ELSE IF Len(frame.index) = 0
    THEN [err   |-> FALSE,
          cols  |-> Append(frame.cols, ticker),
          index |-> value.index,
          data  |-> Append([c \in 1..Len(frame.cols) |->
                                [i \in 1..Len(value.index) |-> NaN]],
                           value.vals)]
    ELSE IF value.index = frame.index
    THEN [frame EXCEPT !.cols = Append(@, ticker), !.data = Append(@, value.vals)]
    ELSE IF ~IsUnique(value.index)
    THEN [frame EXCEPT !.err = TRUE]
    ELSE [frame EXCEPT !.cols = Append(@, ticker),
                       !.data = Append(@, Reindex(value, frame.index))]

\* The rows dropna keeps: those without a NaN in any column.
KeptRows(frame) ==
    SelectSeq([i \in 1..Len(frame.index) |-> i],
              LAMBDA i : \A c \in 1..Len(frame.cols) : ~IsNaN(frame.data[c][i]))

\* signals.dropna(inplace=True) (line 165).
DropNa(frame) ==
    IF frame.err THEN frame
    ELSE LET keep == KeptRows(frame)
         IN  [err   |-> FALSE,
              cols  |-> frame.cols,
              index |-> [r \in 1..Len(keep) |-> frame.index[keep[r]]],
              data  |-> [c \in 1..Len(frame.cols) |->
                            [r \in 1..Len(keep) |-> frame.data[c][keep[r]]]]]

RECURSIVE SignalsLoop(_, _, _, _)
\* The loop of calculate_signals (lines 146-163) from the k-th entry of data_dict.
SignalsLoop(data_dict, div_rates, k, signals) ==
    IF k > Len(data_dict) THEN signals
    ELSE LET ticker == data_dict[k].ticker
             df     == data_dict[k].df
         IN  IF Len(df) < LOOKBACK_DAYS
             THEN SignalsLoop(data_dict, div_rates, k + 1, signals)
             ELSE SignalsLoop(data_dict, div_rates, k + 1,
                     SetItem(signals, ticker, Score(df, GetRate(div_rates, ticker))))

\* calculate_signals(data_dict, div_rates) (lines 142-166).
calculate_signals(data_dict, div_rates) ==
    DropNa(SignalsLoop(data_dict, div_rates, 1, EmptyFrame))

\* signals.empty: no row or no column.
IsEmpty(frame) == Len(frame.index) = 0 \/ Len(frame.cols) = 0

\* signals.iloc[-1].idxmax() (line 190): the first column holding the maximum of
\* the last row.
IdxMax(frame) ==
    LET r    == Len(frame.index)
        best == CHOOSE c \in 1..Len(frame.cols) :
                    /\ \A d \in 1..Len(frame.cols) : ValLeq(frame.data[d][r], frame.data[c][r])
                    /\ \A d \in 1..(c - 1) : frame.data[d][r] # frame.data[c][r]
    IN  frame.cols[best]

(***************************************************************************)
(* get_dividend_rates: what one provider answer adds to div_rates          *)
(* (lines 52-70).  An answer is the provider raising, a profile without    *)
(* the dividend-yield row, or the text of that row: whether it holds '%',  *)
(* whether float() parses what is left, and the number in thousandths of a *)
(* percent.                                                                *)
(***************************************************************************)
\* The tests of lines 57-61, all passed.
Accepts(resp) ==
    /\ resp.kind = "value"
    /\ resp.pct
    /\ resp.num
    /\ 0 < resp.milli
    /\ resp.milli < MAX_PLAUSIBLE * 1000

\* round(div_rate, 2): thousandths to the nearest hundredth (the answers drawn
\* below hold no tie).
Round2(milli) == (milli + 5) \div 10

\* DEFAULT_DIV.get(ticker, 3.0)
DefaultRate(ticker) ==
    IF ticker \in DOMAIN DEFAULT_DIV THEN DEFAULT_DIV[ticker] ELSE FALLBACK_DIV

\* An except branch that only reports the failure.
StoreNothing(rates, ticker) == rates

\* The except branch (lines 68-70): the default is stored.
StoreDefault(rates, ticker) == (ticker :> DefaultRate(ticker)) @@ rates

\* The body of the loop for one ticker: the accepted value rounded, or the default.
StoreRate(rates, ticker, resp) ==
    IF Accepts(resp)
    THEN (ticker :> Round2(resp.milli)) @@ rates
    ELSE StoreDefault(rates, ticker)

\* Whether the body reaches time.sleep(REQUEST_DELAY) (line 72): the accepting
\* branch leaves the iteration by `continue` (line 64).
ReachesSleep(resp) == ~Accepts(resp)

RECURSIVE RefreshFrom(_, _, _)
\* The loop of lines 51-72 from the k-th ticker, given every answer.
RefreshFrom(resps, k, rates) ==
    IF k > Len(ETF_MAP) THEN rates
    ELSE RefreshFrom(resps, k + 1, StoreRate(rates, ETF_MAP[k], resps[ETF_MAP[k]]))

(***************************************************************************)
(* The cache file and the clock.  The clock counts ticks; a date is a day  *)
(* number.  The file is absent, malformed (json.load, a missing key or     *)
(* strptime raises) or holds last_update and rates as a run wrote them.    *)
(***************************************************************************)
TicksPerDay == 2

NoCache == [state |-> "absent", last_update |-> 0, rates |-> <<>>]

BadCache == [state |-> "malformed", last_update |-> 0, rates |-> <<>>]

\* datetime.now().strftime('%Y-%m-%d')
Today(now) == now \div TicksPerDay

\* (datetime.now() - last_update).days, last_update being midnight of its date.
DaysSince(now, last_update) == (now - last_update * TicksPerDay) \div TicksPerDay

\* A freshness test that still accepts a file DIV_CACHE_DAYS days old.
CacheHitInclusive(cache, now) ==
    /\ cache.state = "ok"
    /\ DaysSince(now, cache.last_update) <= DIV_CACHE_DAYS

\* Lines 37-46: the cached rates are returned.
CacheHit(cache, now) ==
    /\ cache.state = "ok"
    /\ DaysSince(now, cache.last_update) < DIV_CACHE_DAYS

\* Lines 75-80: the file as the run rewrites it.
SavedCache(rates, now) == [state |-> "ok", last_update |-> Today(now), rates |-> rates]

(***************************************************************************)
(* fetch_etf_data (lines 85-139).                                          *)
(***************************************************************************)
RECURSIVE InsertRow(_, _)
\* Insert a row after the rows of a sorted sequence whose date is not later.
InsertRow(sorted, row) ==
    IF sorted = <<>> THEN <<row>>
    ELSE IF sorted[Len(sorted)].date <= row.date THEN Append(sorted, row)
    ELSE Append(InsertRow(SubSeq(sorted, 1, Len(sorted) - 1), row), sorted[Len(sorted)])

RECURSIVE SortRows(_, _)
SortRows(rows, k) ==
    IF k = 0 THEN <<>> ELSE InsertRow(SortRows(rows, k - 1), rows[k])

SwapAt(s, i) == [j \in 1..Len(s) |-> IF j = i THEN s[i + 1] ELSE IF j = i + 1 THEN s[i] ELSE s[j]]

\* df.sort_values('date') (line 125): ascending by date.  The default sort is not
\* stable, so two rows of one date may come out in either order (the answers
\* drawn below repeat at most one date, once).
SortOutcomes(rows) ==
    LET s == SortRows(rows, Len(rows))
    IN  {s} \cup {SwapAt(s, i) : i \in {j \in 1..(Len(s) - 1) : s[j].date = s[j + 1].date}}

\* The try block for one ticker (lines 92-132): the frames it may store, none when
\* the ticker is left out.
FetchOutcomes(resp) ==
    IF resp.kind = "error" THEN {}
    ELSE IF ~resp.hasDate \/ ~resp.hasClose THEN {}
    ELSE {df \in SortOutcomes(resp.rows) : ~(Len(df) < LOOKBACK_DAYS)}

(***************************************************************************)
(* The answers of the data source the model draws from.                    *)
(***************************************************************************)
\* Dates are 1..Horizon.
Horizon == LOOKBACK_DAYS + 2

Shapes == {"flat", "rising", "falling", "lateJump"}

RECURSIVE Pow2(_)
Pow2(e) == IF e <= 0 THEN 1 ELSE 2 * Pow2(e - 1)

\* The close of row i of n: constant; doubling daily; halving daily; constant
\* with a jump on the last day.
ShapeClose(shape, i, n) ==
    CASE shape = "flat"     -> 1
      [] shape = "rising"   -> Pow2(i - 1)
      [] shape = "falling"  -> Pow2(n - i)
      [] shape = "lateJump" -> IF i = n THEN 2 ELSE 1

BaseRows(start, n, shape) ==
    [i \in 1..n |-> [date |-> start + i - 1, close |-> ShapeClose(shape, i, n)]]

Reverse(s) == [i \in 1..Len(s) |-> s[Len(s) + 1 - i]]

\* <<first date, number of rows>>
Ranges == {<<1, LOOKBACK_DAYS - 1>>, <<1, LOOKBACK_DAYS>>, <<1, LOOKBACK_DAYS + 1>>,
           <<2, LOOKBACK_DAYS + 1>>, <<1, LOOKBACK_DAYS + 2>>}

PlainRows == {BaseRows(r[1], r[2], sh) : r \in Ranges, sh \in Shapes}

\* Rows whose last date comes twice.
RepeatRows ==
    {Append(BaseRows(1, n, sh), [date |-> n, close |-> 1]) :
        n \in {LOOKBACK_DAYS - 1, LOOKBACK_DAYS + 1}, sh \in {"flat", "rising"}}

RowSets == PlainRows \cup RepeatRows \cup {Reverse(rows) : rows \in PlainRows \cup RepeatRows}

PriceAnswers ==
    {[kind |-> "error", hasDate |-> FALSE, hasClose |-> FALSE, rows |-> <<>>]}
    \cup {[kind |-> "table", hasDate |-> FALSE, hasClose |-> TRUE, rows |-> BaseRows(1, Horizon, "flat")],
          [kind |-> "table", hasDate |-> TRUE, hasClose |-> FALSE, rows |-> BaseRows(1, Horizon, "flat")]}
    \cup {[kind |-> "table", hasDate |-> TRUE, hasClose |-> TRUE, rows |-> rows] : rows \in RowSets}

YieldError == [kind |-> "error", pct |-> FALSE, num |-> FALSE, milli |-> 0]

YieldText(milli) == [kind |-> "value", pct |-> TRUE, num |-> TRUE, milli |-> milli]

\* The yield answers of get_dividend_rates run on its own: the provider raises, the
\* profile has no yield row, the text has no '%', the text is no number, and
\* numbers below, inside, at the edges of and above the plausible range.
YieldAnswers ==
    {YieldError,
     [kind |-> "norow", pct |-> FALSE, num |-> FALSE, milli |-> 0],
     [kind |-> "value", pct |-> FALSE, num |-> TRUE, milli |-> 4000],
     [kind |-> "value", pct |-> TRUE, num |-> FALSE, milli |-> 0]}
    \cup {YieldText(m) : m \in {0 - 1000, 0, 4, 4000, 14996, 15000, 20000}}

\* The yield answers of the main sequence: a failure, or "4.000%".
MainYieldAnswers == {YieldError, YieldText(4000)}

(***************************************************************************)
(* The main sequence (lines 169-193).                                      *)
(***************************************************************************)
MaxRuns == 2

\* The clock stops a day after one cache period.
MaxDays == DIV_CACHE_DAYS + 1

VARIABLES
    pc,           \* where the script is: "yields", "fetch", "recommend", "done"
    div_rates,    \* the yield map, once get_dividend_rates returned
    etf_data,     \* fetch_etf_data's dict, as a sequence of [ticker, df] in insertion order
    i,            \* fetch_etf_data: the next ticker of ETF_MAP
    signals,      \* the score table, once calculate_signals returned
    outcome,      \* how the run ended: "cannot_proceed", "no_signal", "recommend", "crash"
    best_ticker,  \* the recommendation
    ypc,          \* get_dividend_rates: "idle", "loop", "sleep", "returned"
    now,          \* the clock, in ticks
    cache,        \* dividend_cache.json
    rates,        \* get_dividend_rates: the local div_rates
    k,            \* get_dividend_rates: the next ticker of ETF_MAP
    returned,     \* what the last call of get_dividend_rates returned (empty during a call)
    lastEvent,    \* the last thing the current call did: "none", "request", "sleep"
    nreq,         \* provider requests of the current call
    runs          \* calls of get_dividend_rates so far

mainVars == <<pc, div_rates, etf_data, i, signals, outcome, best_ticker>>

yieldVars == <<ypc, now, cache, rates, k, returned, lastEvent, nreq, runs>>

vars == <<mainVars, yieldVars>>

MainStart ==
    /\ pc = "yields"
    /\ div_rates = <<>>
    /\ etf_data = <<>>
    /\ i = 1
    /\ signals = EmptyFrame
    /\ outcome = "none"
    /\ best_ticker = "none"

YieldStart ==
    /\ ypc = "idle"
    /\ now = 0
    /\ cache = NoCache
    /\ rates = <<>>
    /\ k = 1
    /\ returned = <<>>
    /\ lastEvent = "none"
    /\ nreq = 0
    /\ runs = 0

(***************************************************************************)
(* The main sequence (lines 169-193).                                      *)
(***************************************************************************)
Init == MainStart /\ YieldStart

\* Line 173, on the refresh path: every ticker is asked.  (A cache hit returns the
\* map an earlier refresh stored; SpecYield follows the function step by step.)
GetDividendRates ==
    /\ pc = "yields"
    /\ \E resps \in [Tickers -> MainYieldAnswers] :
          div_rates' = RefreshFrom(resps, 1, <<>>)
    /\ pc' = "fetch"
    /\ UNCHANGED <<etf_data, i, signals, outcome, best_ticker, yieldVars>>

\* One iteration of the loop of fetch_etf_data (lines 91-137): the ticker's frame
\* is stored or the ticker is left out, and the loop goes on either way.  The
\* sleep of line 137 changes nothing the script reads.
FetchTicker ==
    /\ pc = "fetch"
    /\ i <= Len(ETF_MAP)
    /\ \E resp \in PriceAnswers :
          LET outs == FetchOutcomes(resp)
          IN  IF outs = {}
              THEN etf_data' = etf_data
              ELSE \E df \in outs :
                      etf_data' = Append(etf_data, [ticker |-> ETF_MAP[i], df |-> df])
    /\ i' = i + 1
    /\ UNCHANGED <<pc, div_rates, signals, outcome, best_ticker, yieldVars>>

\* Lines 179-180: the price map is empty.
CannotProceed ==
    /\ pc = "fetch"
    /\ i > Len(ETF_MAP)
    /\ etf_data = <<>>
    /\ outcome' = "cannot_proceed"
    /\ pc' = "done"
    /\ UNCHANGED <<div_rates, etf_data, i, signals, best_ticker, yieldVars>>

\* Line 183: calculate_signals returns the table, or an exception ends the run.
CalculateSignals ==
    /\ pc = "fetch"
    /\ i > Len(ETF_MAP)
    /\ etf_data # <<>>
    /\ signals' = calculate_signals(etf_data, div_rates)
    /\ IF signals'.err
       THEN pc' = "done" /\ outcome' = "crash"
       ELSE pc' = "recommend" /\ outcome' = outcome
    /\ UNCHANGED <<div_rates, etf_data, i, best_ticker, yieldVars>>

\* Lines 185-191.
Recommend ==
    /\ pc = "recommend"
    /\ ~IsEmpty(signals)
    /\ best_ticker' = IdxMax(signals)
    /\ outcome' = "recommend"
    /\ pc' = "done"
    /\ UNCHANGED <<div_rates, etf_data, i, signals, yieldVars>>

\* Lines 192-193.
NoSignal ==
    /\ pc = "recommend"
    /\ IsEmpty(signals)
    /\ outcome' = "no_signal"
    /\ pc' = "done"
    /\ UNCHANGED <<div_rates, etf_data, i, signals, best_ticker, yieldVars>>

Next ==
    \/ GetDividendRates
    \/ FetchTicker
    \/ CannotProceed
    \/ CalculateSignals
    \/ Recommend
    \/ NoSignal

Spec == Init /\ [][Next]_vars

(***************************************************************************)
(* get_dividend_rates (lines 33-82), step by step, called again and again  *)
(* as days pass.                                                           *)
(***************************************************************************)
InitYield ==
    /\ MainStart
    /\ YieldStart

\* The gaps between two runs of the script: a tick past midnight, a tick less than
\* the cache period, the cache period, and a day less.
Gaps(t) ==
    {(DIV_CACHE_DAYS - 1) * TicksPerDay, DIV_CACHE_DAYS * TicksPerDay - 1,
     DIV_CACHE_DAYS * TicksPerDay}
    \cup (IF t % TicksPerDay = 0 THEN {1} ELSE {})

\* Time passes between two runs of the script.
Advance ==
    /\ ypc \in {"idle", "returned"}
    /\ \E d \in Gaps(now) :
          /\ now + d <= MaxDays * TicksPerDay
          /\ now' = now + d
    /\ UNCHANGED <<ypc, cache, rates, k, returned, lastEvent, nreq, runs, mainVars>>

\* Between two runs the file is removed, or left malformed (a write cut short).
DamageCache ==
    /\ ypc \in {"idle", "returned"}
    /\ \E c \in {NoCache, BadCache} : c # cache /\ cache' = c
    /\ UNCHANGED <<ypc, now, rates, k, returned, lastEvent, nreq, runs, mainVars>>

\* Lines 35-49: the call returns the cached rates or starts the loop.
Call ==
    /\ ypc \in {"idle", "returned"}
    /\ runs < MaxRuns
    /\ runs' = runs + 1
    /\ nreq' = 0
    /\ lastEvent' = "none"
    /\ IF CacheHit(cache, now)
       THEN /\ returned' = cache.rates
            /\ ypc' = "returned"
            /\ UNCHANGED <<rates, k>>
       ELSE /\ rates' = <<>>
            /\ k' = 1
            /\ ypc' = "loop"
            /\ returned' = <<>>
    /\ UNCHANGED <<now, cache, mainVars>>

\* Lines 52-70 for the k-th ticker: the request and what is stored for it.
Request ==
    /\ ypc = "loop"
    /\ k <= Len(ETF_MAP)
    /\ \E resp \in YieldAnswers :
          /\ rates' = StoreRate(rates, ETF_MAP[k], resp)
          /\ IF ReachesSleep(resp)
             THEN ypc' = "sleep" /\ k' = k
             ELSE ypc' = "loop" /\ k' = k + 1
    /\ nreq' = nreq + 1
    /\ lastEvent' = "request"
    /\ UNCHANGED <<now, cache, returned, runs, mainVars>>

\* Line 72: time.sleep(REQUEST_DELAY); REQUEST_DELAY seconds are less than a tick.
Sleep ==
    /\ ypc = "sleep"
    /\ lastEvent' = "sleep"
    /\ k' = k + 1
    /\ ypc' = "loop"
    /\ UNCHANGED <<now, cache, rates, returned, nreq, runs, mainVars>>

\* Lines 74-82: the file is rewritten and the map returned.
SaveAndReturn ==
    /\ ypc = "loop"
    /\ k > Len(ETF_MAP)
    /\ cache' = SavedCache(rates, now)
    /\ returned' = rates
    /\ ypc' = "returned"
    /\ rates' = <<>>
    /\ k' = 1
    /\ UNCHANGED <<now, lastEvent, nreq, runs, mainVars>>

NextYield ==
    \/ Advance
    \/ DamageCache
    \/ Call
    \/ Request
    \/ Sleep
    \/ SaveAndReturn

SpecYield == InitYield /\ [][NextYield]_vars

(***************************************************************************)
(* Properties of get_dividend_rates (checked under SpecYield).             *)
(***************************************************************************)
\* C3: whatever path get_dividend_rates returns by (the cached rates, fetched values
\* rounded to two decimals, defaults), every value v of the returned map has
\* 0 < v < 15.
C3_PlausibleYields ==
    ypc = "returned" =>
        \A t \in DOMAIN returned :
            0 < returned[t] /\ returned[t] < MAX_PLAUSIBLE * 100

\* C4: whenever get_dividend_rates returns, the returned map has an entry for every
\* ticker of ETF_MAP.
C4_CompleteMap == ypc = "returned" => DOMAIN returned = Tickers

\* A refresh has returned a map that mixes a default with a fetched value.
C4_Witness ==
    /\ ypc = "returned"
    /\ nreq = Len(ETF_MAP)
    /\ DOMAIN returned = Tickers
    /\ returned[ETF_MAP[1]] = DEFAULT_DIV[ETF_MAP[1]]
    /\ returned[ETF_MAP[2]] = 400
    /\ returned[ETF_MAP[2]] # DEFAULT_DIV[ETF_MAP[2]]

\* C5: a call returns the cached rates, with no request and the file unchanged,
\* exactly when the file exists, parses and is less than DIV_CACHE_DAYS days old by
\* its date; otherwise it starts the loop, and the loop ends having requested every
\* ticker of ETF_MAP, one request per ticker in order, and having rewritten the
\* file with the returned map and today's date.
C5_CacheDecision ==
    [][ /\ (runs' = runs + 1) =>
              IF cache.state = "ok" /\ Today(now) - cache.last_update < DIV_CACHE_DAYS
              THEN /\ ypc' = "returned"
                   /\ returned' = cache.rates
                   /\ nreq' = 0
                   /\ cache' = cache
              ELSE /\ ypc' = "loop"
                   /\ nreq' = 0
                   /\ rates' = <<>>
                   /\ cache' = cache
        /\ (nreq' # nreq /\ runs' = runs) =>
              /\ nreq' = nreq + 1
              /\ k = nreq'
              /\ ETF_MAP[k] \in DOMAIN rates'
              /\ cache' = cache
        /\ (ypc = "loop" /\ ypc' = "returned") =>
              /\ nreq = Len(ETF_MAP)
              /\ DOMAIN returned' = Tickers
              /\ cache' = [state |-> "ok", last_update |-> Today(now), rates |-> returned']
      ]_vars

\* A call has returned the cached rates of a file DIV_CACHE_DAYS - 1 days old.
C5_Witness ==
    /\ ypc = "returned"
    /\ runs > 1
    /\ nreq = 0
    /\ cache.state = "ok"
    /\ returned = cache.rates
    /\ Today(now) - cache.last_update = DIV_CACHE_DAYS - 1

\* C6: within one call, every provider request after the first is preceded by the
\* sleep of REQUEST_DELAY, whether the request before it was accepted or not.
C6_DelayBetweenRequests ==
    [][(runs' = runs /\ nreq' = nreq + 1 /\ nreq >= 1) => lastEvent = "sleep"]_vars

(***************************************************************************)
(* Properties of the main sequence (checked under Spec).                   *)
(***************************************************************************)
\* calculate_signals has returned a table.
HasTable == pc \in {"recommend", "done"} /\ etf_data # <<>> /\ ~signals.err

Entries == {etf_data[e] : e \in 1..Len(etf_data)}

\* The instrument has an observation on the date, with momentum and volatility
\* both defined there.
OwnScoreDefined(df, date) ==
    \E j \in 1..Len(df) :
        /\ df[j].date = date
        /\ ~IsNaN(Momentum(df)[j])
        /\ ~IsNaN(Volatility(df)[j])

\* C1: a date is retained in the score table only if every instrument with a column
\* has an observation on that date with momentum and volatility defined there.
C1_RowCompleteness ==
    HasTable =>
        \A r \in 1..Len(signals.index) :
            \A e \in Entries :
                e.ticker \in {signals.cols[c] : c \in 1..Len(signals.cols)}
                    => OwnScoreDefined(e.df, signals.index[r])

\* The risk-adjusted value the claim gives for one date.
PerDateSharpe(m, vol) ==
    IF vol = Num(0) THEN Scale(m, 10) ELSE ExcessOverVol(m, vol)

\* The risk-adjusted value the script holds for row j.
SharpeAt(df, j) == IF Sharpe(df).scalar THEN Sharpe(df).v ELSE Sharpe(df).vals[j]

\* C2: at every date where momentum and volatility are defined, sharpe is momentum
\* times 10 when the volatility of that date is 0 and (momentum - RISK_FREE_RATE/252)
\* / volatility otherwise; no retained score is infinite; for a constant-close
\* series sharpe is 0 and the score is 0.3 * yield / 100.
C2_PerDateFallback ==
    HasTable =>
        /\ \A e \in Entries :
              \A j \in 1..Len(e.df) :
                  LET m   == Momentum(e.df)[j]
                      vol == Volatility(e.df)[j]
                  IN  (~IsNaN(m) /\ ~IsNaN(vol)) =>
                          SharpeAt(e.df, j) = PerDateSharpe(m, vol)
        /\ \A e \in Entries :
              ( /\ Len(e.df) > LOOKBACK_DAYS
                /\ \A j \in 1..Len(e.df) : e.df[j].close = e.df[1].close )
              => /\ SharpeAt(e.df, Len(e.df)) = Num(0)
                 /\ Score(e.df, GetRate(div_rates, e.ticker)).v
                        = Num(3 * (GetRate(div_rates, e.ticker) * 100))
        /\ \A c \in 1..Len(signals.cols) :
              \A r \in 1..Len(signals.index) : signals.data[c][r].k = "num"

IsStrictlyIncreasing(df) == \A j \in 1..(Len(df) - 1) : df[j].date < df[j + 1].date

\* C7: every series of the returned map has strictly increasing dates and at least
\* LOOKBACK_DAYS observations.
C7_PriceSeriesInvariant ==
    \A e \in Entries :
        /\ IsStrictlyIncreasing(e.df)
        /\ Len(e.df) >= LOOKBACK_DAYS

\* The closes of df follow the shape, over at least LOOKBACK_DAYS + 1 days.
HasShape(df, shape) ==
    /\ Len(df) > LOOKBACK_DAYS
    /\ IsStrictlyIncreasing(df)
    /\ \A j \in 1..Len(df) : df[j].close = ShapeClose(shape, j, Len(df))

\* The last row's score of the column of a ticker.
LastScore(ticker) ==
    LET c == CHOOSE d \in 1..Len(signals.cols) : signals.cols[d] = ticker
    IN  signals.data[c][Len(signals.index)]

\* C8: three instruments on the same dates, one rising at a constant daily rate (A),
\* one flat (B), one falling at a constant daily rate (C), with equal yields of 4%:
\* the table is not empty, its last row ranks A > B > C, B's sharpe is the fallback
\* value 0, and A is recommended.
C8_RisingFlatFalling ==
    \A a, b, c \in Entries :
        ( /\ pc = "done"
          /\ Len(etf_data) = Len(ETF_MAP)
          /\ HasShape(a.df, "rising") /\ HasShape(b.df, "flat") /\ HasShape(c.df, "falling")
          /\ Len(a.df) = Len(b.df) /\ Len(b.df) = Len(c.df)
          /\ \A j \in 1..Len(a.df) : a.df[j].date = b.df[j].date /\ b.df[j].date = c.df[j].date
          /\ \A t \in Tickers : GetRate(div_rates, t) = 400 )
        => /\ outcome = "recommend"
           /\ best_ticker = a.ticker
           /\ Sharpe(b.df).scalar /\ Sharpe(b.df).v = Num(0)
           /\ ~ValLeq(LastScore(a.ticker), LastScore(b.ticker))
           /\ ~ValLeq(LastScore(b.ticker), LastScore(c.ticker))

\* C9: a run ends in exactly one of three ways: "cannot proceed" exactly when the
\* price map is empty (calculate_signals is then not called), "no valid signal"
\* exactly when the price map is not empty and the table is, and otherwise the
\* recommendation of a column of the table that holds the maximum of the last row,
\* the first such column.
C9_RunOutcomes ==
    pc = "done" =>
        /\ outcome \in {"cannot_proceed", "no_signal", "recommend"}
        /\ (outcome = "cannot_proceed") = (etf_data = <<>>)
        /\ (outcome = "cannot_proceed") => signals = EmptyFrame
        /\ (outcome = "no_signal") = (etf_data # <<>> /\ IsEmpty(signals))
        /\ (outcome = "recommend") =>
              \E c \in 1..Len(signals.cols) :
                  /\ best_ticker = signals.cols[c]
                  /\ \A d \in 1..Len(signals.cols) :
                        ValLeq(signals.data[d][Len(signals.index)],
                               signals.data[c][Len(signals.index)])
                  /\ \A d \in 1..(c - 1) :
                        signals.data[d][Len(signals.index)]
                            # signals.data[c][Len(signals.index)]

\* The score of calculate_signals for one instrument holds a defined value.
HasDefinedScore(df, rate) ==
    LET score == Score(df, rate)
    IN  IF score.scalar THEN ~IsNaN(score.v)
        ELSE \E j \in 1..Len(score.vals) : ~IsNaN(score.vals[j])

\* C10: an instrument with exactly LOOKBACK_DAYS observations is stored by
\* fetch_etf_data and gets a column, but no defined score, and the table is then
\* empty whatever the other series are; momentum and volatility are defined from
\* the (LOOKBACK_DAYS + 1)-th observation on and not before, and so is the first
\* defined score.
C10_LookbackBoundary ==
    HasTable =>
        \A e \in Entries :
            /\ Len(e.df) = LOOKBACK_DAYS =>
                  /\ e.ticker \in {signals.cols[c] : c \in 1..Len(signals.cols)}
                  /\ ~HasDefinedScore(e.df, GetRate(div_rates, e.ticker))
                  /\ IsEmpty(signals)
            /\ \A j \in 1..Len(e.df) :
                  /\ ~IsNaN(Momentum(e.df)[j]) <=> j > LOOKBACK_DAYS
                  /\ ~IsNaN(Volatility(e.df)[j]) <=> j > LOOKBACK_DAYS
            /\ HasDefinedScore(e.df, GetRate(div_rates, e.ticker))
                  <=> Len(e.df) > LOOKBACK_DAYS
            /\ ~Score(e.df, GetRate(div_rates, e.ticker)).scalar =>
                  \A j \in 1..Len(e.df) :
                      ~IsNaN(Score(e.df, GetRate(div_rates, e.ticker)).vals[j])
                          <=> j > LOOKBACK_DAYS

\* A table was computed from an instrument with exactly LOOKBACK_DAYS observations
\* and a longer one that has defined scores, and it is empty.
C10_Witness ==
    /\ HasTable
    /\ \E e \in Entries : Len(e.df) = LOOKBACK_DAYS
    /\ \E e \in Entries :
          /\ Len(e.df) = LOOKBACK_DAYS + 2
          /\ ~Sharpe(e.df).scalar
          /\ HasDefinedScore(e.df, GetRate(div_rates, e.ticker))
    /\ IsEmpty(signals)
====
